---- MODULE Spec2Model ----
(***************************************************************************)
(* A model of FME/masking_server.py: a local HTTP server that serves one   *)
(* target file, the application shell Masking.html and the script fits.js, *)
(* prints its URL, optionally opens a browser and stops itself after a     *)
(* lifetime given in seconds.                                              *)
(*                                                                         *)
(* Strings that the code takes apart (request targets, file paths, the     *)
(* URL line, Content-Length values) are sequences of tokens; a token is    *)
(* either one of the delimiters "/", "?", "#", ";" or a run of characters  *)
(* holding none of them.  File contents are sequences of bytes.            *)
(***************************************************************************)
EXTENDS Integers, Sequences, FiniteSets, TLC

\* Longest file content, in bytes, the environment writes.
MaxLen == 2

\* Largest --timeout, in seconds, the command line gives.
MaxTimeout == 1

\* A fixed --port N given on the command line (0 asks for any free port).
FixedPort == 5500

\* Ports the operating system may assign when port 0 is requested.
EphemeralPorts == {49152, 49153}

\* The contents a file is given: one per length, n bytes of value n.
Contents == {[i \in 1..n |-> n] : n \in 0..MaxLen}

\* The bundled script has one content; it can still be removed or made
\* unreadable.
ScriptData == <<1, 0>>

\* Resolved absolute paths the positional argument can name.
TargetPaths == {<<"tmp", "a.fits">>, <<"data", "b.fits">>}

\* Path(__file__): where the server script is installed.
ServerFile == <<"app", "masking_server.py">>

\* Request targets as BaseHTTPRequestHandler.parse_request stores them in
\* self.path: origin-form, one leading slash (parse_request collapses a
\* leading "//"), no scheme.
Targets ==
  { <<"/">>,
    <<"/", "index.html">>,
    <<"/", "fits.js">>,
    <<"/", "file">>,
    <<"/", "?", "open=1">>,
    <<"/", "file", "?", "x">>,
    <<"/", "fits.js", "#", "x">>,
    <<"/", "file", ";", "x">>,
    <<"/", "file", "/">>,
    <<"/", "file", "x">>,
    <<"/", "FILE">>,
    <<"/", "x">> }

VARIABLES
  pc,               \* position of the main thread
  args,             \* parsed command line: [file, port]
  fs,               \* the file system: path -> [kind, data]
  checked,          \* the existence checks that passed so far
  httpd,            \* attributes of the server object
  sock,             \* the listening socket: "unbound", "listening", "closed"
  stdout,           \* lines printed
  err,              \* the exception that ended the process, or ""
  timer,            \* the shutdown_later thread: [state, remaining]
  shutdown_request, \* the flag httpd.shutdown() sets
  hpc,              \* position of the request handler
  reqline,          \* self.path of the request being handled
  route,            \* the handler do_GET selected
  out               \* responses written for the request being handled

vars == <<pc, args, fs, checked, httpd, sock, stdout, err, timer,
          shutdown_request, hpc, reqline, route, out>>

----------------------------------------------------------------------------
\* pathlib

\* Mutant: the first component of the path instead of the last.
Name_first(p) == p[1]

Name(p) == p[Len(p)]

Parent(p) == SubSeq(p, 1, Len(p) - 1)

WithName(p, n) == Parent(p) \o <<n>>

Join(d, n) == d \o <<n>>

ShellPath == WithName(ServerFile, "Masking.html")

ScriptPath == Join(Parent(ShellPath), "fits.js")

Missing == [kind |-> "missing", data |-> <<>>]

Unreadable == [kind |-> "unreadable", data |-> <<>>]

File(c) == [kind |-> "file", data |-> c]

\* Path.exists(): stat succeeds, also on a file that cannot be opened.
Exists(p) == p \in DOMAIN fs /\ fs[p].kind # "missing"

\* Path.read_bytes(): the bytes, or an exception.
ReadBytes(p) ==
  IF p \in DOMAIN fs /\ fs[p].kind = "file"
  THEN [ok |-> TRUE, data |-> fs[p].data]
  ELSE [ok |-> FALSE, data |-> <<>>]

----------------------------------------------------------------------------
\* str(int)

Digit(d) == <<"0", "1", "2", "3", "4", "5", "6", "7", "8", "9">>[d + 1]

RECURSIVE DecStr(_)
DecStr(n) ==
  IF n < 10 THEN <<Digit(n)>> ELSE DecStr(n \div 10) \o <<Digit(n % 10)>>

----------------------------------------------------------------------------
\* urllib.parse.urlparse on a target without scheme and netloc

Find(s, c, from) ==
  LET hits == {i \in from..Len(s) : s[i] = c}
  IN IF hits = {} THEN 0 ELSE CHOOSE i \in hits : \A j \in hits : i <= j

RFind(s, c) ==
  LET hits == {i \in 1..Len(s) : s[i] = c}
  IN IF hits = {} THEN 0 ELSE CHOOSE i \in hits : \A j \in hits : i >= j

\* url.split(c, 1)
Split1(s, c) ==
  LET i == Find(s, c, 1)
  IN IF i = 0 THEN <<s, <<>>>>
     ELSE <<SubSeq(s, 1, i - 1), SubSeq(s, i + 1, Len(s))>>

\* _splitparams: the parameters of the last path segment
splitparams(url) ==
  LET i == IF RFind(url, "/") # 0 THEN Find(url, ";", RFind(url, "/"))
           ELSE Find(url, ";", 1)
  IN IF i = 0 THEN <<url, <<>>>>
     ELSE <<SubSeq(url, 1, i - 1), SubSeq(url, i + 1, Len(url))>>

urlparse(url) ==
  LET f == Split1(url, "#")
      q == Split1(f[1], "?")
      p == splitparams(q[1])
  IN [path |-> p[1], params |-> p[2], query |-> q[2], fragment |-> f[2]]

----------------------------------------------------------------------------
\* Responses

NoResponseHeader == ""

\* send_error(code, message): the error page it writes is not modelled.
send_error(code, message) ==
  [status |-> code, reason |-> message, ctype |-> "text/html;charset=utf-8",
   cache |-> NoResponseHeader, clen |-> <<>>, fname |-> NoResponseHeader,
   body |-> <<>>]

\* Mutant: one byte more than the body holds.
ContentLength_plus1(data) == DecStr(Len(data) + 1)

ContentLength(data) == DecStr(Len(data))

\* send_response(200), the headers, end_headers(), wfile.write(data)
send_ok(ctype, data, fname) ==
  [status |-> 200, reason |-> "OK", ctype |-> ctype, cache |-> "no-store",
   clen |-> ContentLength(data), fname |-> fname, body |-> data]

NoServer == [file_path |-> <<>>, html_path |-> <<>>, static_dir |-> <<>>,
             port |-> 0]

NoTimer == [state |-> "none", remaining |-> 0]

----------------------------------------------------------------------------
FileStates(p) ==
  {Missing, Unreadable} \cup
  {File(c) : c \in IF p = ScriptPath THEN {ScriptData} ELSE Contents}

Init ==
  /\ pc = "main"
  /\ args \in [file : TargetPaths, port : {0, FixedPort}]
  /\ fs \in {f \in [{args.file, ShellPath, ScriptPath} ->
                     {Missing, Unreadable} \cup {File(c) : c \in Contents \cup {ScriptData}}] :
               \A p \in DOMAIN f : f[p] \in FileStates(p)}
  /\ checked = {}
  /\ httpd = NoServer
  /\ sock = "unbound"
  /\ stdout = <<>>
  /\ err = ""
  /\ timer = NoTimer
  /\ shutdown_request = FALSE
  /\ hpc = "idle"
  /\ reqline = <<>>
  /\ route = "none"
  /\ out = <<>>

----------------------------------------------------------------------------
\* Startup: main() and run_server() up to serve_forever()

\* with MaskingTCPServer(...) as httpd: leaving the block closes the socket.
Abort(e) ==
  /\ pc' = "aborted"
  /\ err' = e
  /\ sock' = IF sock = "listening" THEN "closed" ELSE sock

\* main(): resolve the positional argument and require the file to exist.
Main ==
  /\ pc = "main"
  /\ IF Exists(args.file)
     THEN /\ pc' = "run_server"
          /\ checked' = checked \cup {"file"}
          /\ UNCHANGED <<err, sock>>
     ELSE /\ Abort("FileNotFoundError: File not found")
          /\ UNCHANGED checked
  /\ UNCHANGED <<args, fs, httpd, stdout, timer, shutdown_request, hpc,
                 reqline, route, out>>

\* run_server(): Masking.html beside the script must exist.
CheckShell ==
  /\ pc = "run_server"
  /\ IF Exists(ShellPath)
     THEN /\ pc' = "bind"
          /\ checked' = checked \cup {"shell"}
          /\ UNCHANGED <<err, sock>>
     ELSE /\ Abort("FileNotFoundError: Masking.html not found")
          /\ UNCHANGED checked
  /\ UNCHANGED <<args, fs, httpd, stdout, timer, shutdown_request, hpc,
                 reqline, route, out>>

\* The ports bind(("127.0.0.1", port)) can end up on.
BindablePorts(port) == IF port = 0 THEN EphemeralPorts ELSE {port}

\* httpd.file_path, httpd.html_path, httpd.static_dir, server_address[1]
ServerAttrs(bound) ==
  [file_path |-> args.file, html_path |-> ShellPath,
   static_dir |-> Parent(ShellPath), port |-> bound]

\* MaskingTCPServer(("127.0.0.1", port), ...): bind and listen, or OSError.
Bind ==
  /\ pc = "bind"
  /\ \/ \E bound \in BindablePorts(args.port) :
          /\ sock' = "listening"
          /\ httpd' = ServerAttrs(bound)
          /\ pc' = "announce"
          /\ UNCHANGED err
     \/ /\ Abort("OSError: address in use")
        /\ UNCHANGED httpd
  /\ UNCHANGED <<args, fs, checked, stdout, timer, shutdown_request, hpc,
                 reqline, route, out>>

\* Mutant: the port asked for instead of the port bound.
AnnouncedPort_requested == args.port

\* The port the URL names.
AnnouncedPort == httpd.port

Url(port) == <<"http://127.0.0.1:">> \o DecStr(port) \o <<"/?open=1">>

\* print(url, flush=True)
Announce ==
  /\ pc = "announce"
  /\ stdout' = Append(stdout, Url(AnnouncedPort))
  /\ pc' = "open"
  /\ UNCHANGED <<args, fs, checked, httpd, sock, err, timer,
                 shutdown_request, hpc, reqline, route, out>>

\* What webbrowser.open(url) can do: return True, return False, raise.
BrowserOutcomes == {"opened", "failed", "raised"}

\* if auto_open: webbrowser.open(url); --open is read here and nowhere else.
OpenBrowser ==
  /\ pc = "open"
  /\ \E auto_open \in BOOLEAN, outcome \in BrowserOutcomes :
       IF auto_open /\ outcome = "raised"
       THEN Abort("webbrowser.open raised")
       ELSE /\ pc' = "arm"
            /\ UNCHANGED <<err, sock>>
  /\ UNCHANGED <<args, fs, checked, httpd, stdout, timer, shutdown_request,
                 hpc, reqline, route, out>>

\* if timeout > 0: start shutdown_later; then serve_forever() is entered.
\* --timeout is read here and nowhere else.
ArmTimer ==
  /\ pc = "arm"
  /\ \E timeout \in 0..MaxTimeout :
       timer' = IF timeout > 0
                THEN [state |-> "sleeping", remaining |-> timeout]
                ELSE NoTimer
  /\ pc' = "serve"
  /\ UNCHANGED <<args, fs, checked, httpd, sock, stdout, err,
                 shutdown_request, hpc, reqline, route, out>>

----------------------------------------------------------------------------
\* The shutdown_later thread

\* time.sleep(timeout): one second passes.
Tick ==
  /\ timer.state = "sleeping"
  /\ timer.remaining > 0
  /\ timer' = [timer EXCEPT !.remaining = @ - 1]
  /\ UNCHANGED <<pc, args, fs, checked, httpd, sock, stdout, err,
                 shutdown_request, hpc, reqline, route, out>>

\* httpd.shutdown(): set the flag, then wait for serve_forever to return.
TimerFire ==
  /\ timer.state = "sleeping"
  /\ timer.remaining = 0
  /\ shutdown_request' = TRUE
  /\ timer' = [timer EXCEPT !.state = "waiting"]
  /\ UNCHANGED <<pc, args, fs, checked, httpd, sock, stdout, err, hpc,
                 reqline, route, out>>

----------------------------------------------------------------------------
\* serve_forever(): one connection at a time, handled on the main thread

\* The loop finds the socket readable and accepts; the handler then blocks
\* reading the request line (StreamRequestHandler sets no timeout).
Accept ==
  /\ pc = "serve"
  /\ ~shutdown_request
  /\ hpc = "idle"
  /\ hpc' = "reading"
  /\ UNCHANGED <<pc, args, fs, checked, httpd, sock, stdout, err, timer,
                 shutdown_request, reqline, route, out>>

\* The client sends "GET <target> HTTP/1.x".
ClientSend(target) ==
  /\ hpc = "reading"
  /\ reqline' = target
  /\ hpc' = "dispatch"
  /\ UNCHANGED <<pc, args, fs, checked, httpd, sock, stdout, err, timer,
                 shutdown_request, route, out>>

\* The client closes without sending: the handler returns, nothing written.
ClientClose ==
  /\ hpc = "reading"
  /\ hpc' = "idle"
  /\ UNCHANGED <<pc, args, fs, checked, httpd, sock, stdout, err, timer,
                 shutdown_request, reqline, route, out>>

\* do_GET's choice of handler by parsed.path
Route(target) ==
  LET path == urlparse(target).path
  IN IF path = <<"/", "fits.js">> THEN "static"
     ELSE IF path = <<"/", "file">> THEN "file"
     ELSE IF path \in {<<"/">>, <<"/", "index.html">>} THEN "shell"
     ELSE "none"

\* Mutant: the shell handler reads the target file.
serve_masking_html_wrongfile ==
  LET r == ReadBytes(httpd.file_path)
  IN IF r.ok
     THEN send_ok("text/html; charset=utf-8", r.data, NoResponseHeader)
     ELSE send_error(500, "Failed to load Masking.html")

\* Route, tabulated over the targets of the model.
Routed == [target \in Targets |-> Route(target)]

\* _serve_masking_html
serve_masking_html ==
  LET r == ReadBytes(httpd.html_path)
  IN IF r.ok
     THEN send_ok("text/html; charset=utf-8", r.data, NoResponseHeader)
     ELSE send_error(500, "Failed to load Masking.html")

\* _serve_static_file after its exists() check
serve_static_read(name, content_type) ==
  LET r == ReadBytes(Join(httpd.static_dir, name))
  IN IF r.ok
     THEN send_ok(content_type, r.data, NoResponseHeader)
     ELSE send_error(500, "Failed to load static file")

\* Mutant: a missing target file reported as a failed read.
fits_missing_as_500 == send_error(500, "Failed to read file")

\* _serve_fits_file when file_path is unset or does not exist
fits_missing == send_error(404, "File not found")

\* Mutant: a failed read reported as a missing file.
fits_unreadable_as_404 == send_error(404, "File not found")

\* _serve_fits_file when read_bytes() raises
fits_unreadable == send_error(500, "Failed to read file")

\* _serve_fits_file after its exists() check
serve_fits_read ==
  LET r == ReadBytes(httpd.file_path)
  IN IF r.ok
     THEN send_ok("application/octet-stream", r.data, Name(httpd.file_path))
     ELSE fits_unreadable

\* The handler has written response r and returns.
Respond(r) == [hpc |-> "done", out |-> Append(out, r)]

\* The handler goes on to read the file.
Continue(at) == [hpc |-> at, out |-> out]

\* do_GET up to the handler's first wait on the file system: where the
\* handler stands afterwards and what it has written.
Dispatch(r) ==
  IF r = "static"
  THEN IF Exists(Join(httpd.static_dir, "fits.js"))
       THEN Continue("static_read")
       ELSE Respond(send_error(404, "Not Found"))
  ELSE IF r = "file"
  THEN IF httpd.file_path # <<>> /\ Exists(httpd.file_path)
       THEN Continue("fits_read")
       ELSE Respond(fits_missing)
  ELSE IF r = "shell"
  THEN Respond(serve_masking_html)
  ELSE Respond(send_error(404, "Not Found"))

do_GET ==
  /\ hpc = "dispatch"
  /\ route' = Routed[reqline]
  /\ hpc' = Dispatch(Routed[reqline]).hpc
  /\ out' = Dispatch(Routed[reqline]).out
  /\ UNCHANGED <<pc, args, fs, checked, httpd, sock, stdout, err, timer,
                 shutdown_request, reqline>>

\* _serve_static_file from read_bytes() on
StaticRead ==
  /\ hpc = "static_read"
  /\ hpc' = "done"
  /\ out' = Append(out, serve_static_read("fits.js",
                       "application/javascript; charset=utf-8"))
  /\ UNCHANGED <<pc, args, fs, checked, httpd, sock, stdout, err, timer,
                 shutdown_request, reqline, route>>

\* Mutant: a failed read also asks the serve loop to stop.
FitsRead_fatal ==
  /\ hpc = "fits_read"
  /\ hpc' = "done"
  /\ out' = Append(out, serve_fits_read)
  /\ shutdown_request' = (shutdown_request \/ serve_fits_read.status = 500)
  /\ UNCHANGED <<pc, args, fs, checked, httpd, sock, stdout, err, timer,
                 reqline, route>>

\* _serve_fits_file from read_bytes() on
FitsRead ==
  /\ hpc = "fits_read"
  /\ hpc' = "done"
  /\ out' = Append(out, serve_fits_read)
  /\ UNCHANGED <<pc, args, fs, checked, httpd, sock, stdout, err, timer,
                 shutdown_request, reqline, route>>

\* The handler returns; the connection is closed.
Finish ==
  /\ hpc = "done"
  /\ hpc' = "idle"
  /\ reqline' = <<>>
  /\ route' = "none"
  /\ out' = <<>>
  /\ UNCHANGED <<pc, args, fs, checked, httpd, sock, stdout, err, timer,
                 shutdown_request>>

\* The loop sees the flag, serve_forever() returns, the with block closes
\* the socket and the process ends (the timer thread is a daemon).
StopServing ==
  /\ pc = "serve"
  /\ shutdown_request
  /\ hpc = "idle"
  /\ pc' = "stopped"
  /\ sock' = "closed"
  /\ shutdown_request' = FALSE
  /\ timer' = [timer EXCEPT !.state = "done"]
  /\ UNCHANGED <<args, fs, checked, httpd, stdout, err, hpc, reqline, route,
                 out>>

----------------------------------------------------------------------------
\* The environment: other processes change the files while the server runs

Running == pc \notin {"stopped", "aborted"}

EnvWrite(p, c) ==
  /\ Running
  /\ File(c) \in FileStates(p)
  /\ fs[p] # File(c)
  /\ fs' = [fs EXCEPT ![p] = File(c)]
  /\ UNCHANGED <<pc, args, checked, httpd, sock, stdout, err, timer,
                 shutdown_request, hpc, reqline, route, out>>

EnvDelete(p) ==
  /\ Running
  /\ fs[p] # Missing
  /\ fs' = [fs EXCEPT ![p] = Missing]
  /\ UNCHANGED <<pc, args, checked, httpd, sock, stdout, err, timer,
                 shutdown_request, hpc, reqline, route, out>>

\* The file stays but can no longer be opened.
EnvRevoke(p) ==
  /\ Running
  /\ fs[p].kind = "file"
  /\ fs' = [fs EXCEPT ![p] = Unreadable]
  /\ UNCHANGED <<pc, args, checked, httpd, sock, stdout, err, timer,
                 shutdown_request, hpc, reqline, route, out>>

----------------------------------------------------------------------------
Next ==
  \/ Main
  \/ CheckShell
  \/ Bind
  \/ Announce
  \/ OpenBrowser
  \/ ArmTimer
  \/ Tick
  \/ TimerFire
  \/ Accept
  \/ \E target \in Targets : ClientSend(target)
  \/ ClientClose
  \/ do_GET
  \/ StaticRead
  \/ FitsRead
  \/ Finish
  \/ StopServing
  \/ \E p \in DOMAIN fs : \E c \in Contents \cup {ScriptData} : EnvWrite(p, c)
  \/ \E p \in DOMAIN fs : EnvDelete(p)
  \/ \E p \in DOMAIN fs : EnvRevoke(p)

Spec == Init /\ [][Next]_vars

\* The steps the main thread takes on its own: startup, the handler once the
\* request line has arrived, and the loop's exit.  The thread is sequential,
\* so at most one of them is enabled at a time.
MainThread ==
  Main \/ CheckShell \/ Bind \/ Announce \/ OpenBrowser \/ ArmTimer
    \/ do_GET \/ StaticRead \/ FitsRead \/ Finish \/ StopServing

\* The steps of the shutdown_later thread.
TimerThread == Tick \/ TimerFire

\* The threads of the process are scheduled; clients and other processes
\* owe the server nothing.
FairSpec == Spec /\ WF_vars(MainThread) /\ WF_vars(TimerThread)

----------------------------------------------------------------------------
\* Properties

\* The path component of a request target: what precedes the query and the
\* fragment.
PathComponent(target) == Split1(Split1(target, "#")[1], "?")[1]

\* The routing table of the specification.
TableRoute(target) ==
  CASE PathComponent(target) = <<"/", "fits.js">> -> "static"
    [] PathComponent(target) = <<"/", "file">> -> "file"
    [] PathComponent(target) \in {<<"/">>, <<"/", "index.html">>} -> "shell"
    [] OTHER -> "none"

\* The number a decimal string denotes.
DigitVal(ch) ==
  CASE ch = "0" -> 0 [] ch = "1" -> 1 [] ch = "2" -> 2 [] ch = "3" -> 3
    [] ch = "4" -> 4 [] ch = "5" -> 5 [] ch = "6" -> 6 [] ch = "7" -> 7
    [] ch = "8" -> 8 [] ch = "9" -> 9

RECURSIVE DecVal(_)
DecVal(s) ==
  IF s = <<>> THEN 0 ELSE 10 * DecVal(SubSeq(s, 1, Len(s) - 1)) + DigitVal(s[Len(s)])

\* A step of the request handler that writes the response.
Responds == hpc \in {"dispatch", "static_read", "fits_read"} /\ hpc' = "done"

\* C1: every GET request gets exactly one response, chosen by exact match on
\* the path component, the query string ignored: /fits.js from the static
\* handler (as application/javascript when served), /file from the target
\* file handler, / and /index.html from the shell handler, and any other
\* path status 404.
C1_ExactRouting ==
  hpc = "done" =>
    /\ Len(out) = 1
    /\ route = TableRoute(reqline)
    /\ TableRoute(reqline) = "none" => out[1].status = 404
    /\ (TableRoute(reqline) = "static" /\ out[1].status = 200) =>
         out[1].ctype = "application/javascript; charset=utf-8"

C3_DeletedGives404 ==
  [][ (/\ pc = "serve" /\ hpc = "dispatch"
       /\ PathComponent(reqline) = <<"/", "file">>
       /\ "file" \in checked
       /\ fs[args.file] = Missing
       /\ hpc' # hpc)
      => /\ hpc' = "done"
         /\ Len(out') = 1
         /\ out'[1].status = 404
         /\ out'[1].body = <<>> ]_vars

C3_Witness ==
  /\ pc = "serve"
  /\ hpc = "done"
  /\ reqline = <<"/", "file">>
  /\ "file" \in checked
  /\ fs[args.file] = Missing
  /\ out[1].status = 404

\* C4, as claimed: a GET /file answered while the target file is missing or
\* cannot be read is answered 404 "File not found".
C4_UnreadableGives404 ==
  [][ (/\ Responds /\ route' = "file"
       /\ fs[args.file].kind # "file")
      => /\ out'[1].status = 404
         /\ out'[1].reason = "File not found" ]_vars

\* C4, amended: the target file missing at the handler's existence check
\* gives 404 "File not found"; a file that passed the check and then cannot
\* be read gives 500 "Failed to read file".
C4_MissingOrUnreadable ==
  [][ (/\ Responds /\ route' = "file"
       /\ fs[args.file].kind # "file")
      => IF hpc = "dispatch"
         THEN /\ fs[args.file] = Missing
              /\ out'[1].status = 404
              /\ out'[1].reason = "File not found"
         ELSE /\ out'[1].status = 500
              /\ out'[1].reason = "Failed to read file" ]_vars

C4_Witness ==
  /\ hpc = "done"
  /\ reqline = <<"/", "file">>
  /\ fs[args.file] = Unreadable
  /\ out[1].status = 500
  /\ out[1].reason = "Failed to read file"

\* C5: every 200 response carries Cache-Control: no-store and a
\* Content-Length that is the number of body bytes written.
C5_OkHeaders ==
  \A i \in 1..Len(out) :
    out[i].status = 200 =>
      /\ out[i].cache = "no-store"
      /\ DecVal(out[i].clen) = Len(out[i].body)

C5_Witness ==
  /\ hpc = "done"
  /\ route = "shell"
  /\ out[1].status = 200
  /\ Len(out[1].body) = 2
  /\ out[1].clen = <<"2">>

\* C6: once the lifetime has elapsed, serve_forever eventually returns.
C6_StopsAfterLifetime ==
  (timer.state = "sleeping" /\ timer.remaining = 0) ~> (pc = "stopped")

\* The decimal digits of the ports of the model.
PortDigits(port) ==
  CASE port = 5500 -> <<"5", "5", "0", "0">>
    [] port = 49152 -> <<"4", "9", "1", "5", "2">>
    [] port = 49153 -> <<"4", "9", "1", "5", "3">>

\* C7: at most one line is printed, only after the target file and
\* Masking.html were found and the socket was bound, and it is
\* http://127.0.0.1:<bound port>/?open=1, the port being N under --port N;
\* a missing target file or shell aborts with nothing bound or printed.
C7_UrlLine ==
  /\ Len(stdout) <= 1
  /\ stdout # <<>> =>
       /\ checked = {"file", "shell"}
       /\ sock # "unbound"
       /\ httpd.port \in BindablePorts(args.port)
       /\ stdout[1] = <<"http://127.0.0.1:">> \o PortDigits(httpd.port)
                        \o <<"/?open=1">>
       /\ args.port # 0 => httpd.port = args.port
  /\ err \in {"FileNotFoundError: File not found",
              "FileNotFoundError: Masking.html not found"} =>
       /\ pc = "aborted"
       /\ sock = "unbound"
       /\ stdout = <<>>

C7_Witness ==
  /\ pc = "serve"
  /\ args.port = 0
  /\ Len(stdout) = 1
  /\ stdout[1] = <<"http://127.0.0.1:", "4", "9", "1", "5", "3", "/?open=1">>

\* C8: a browser launch that fails, by returning false or by raising, does
\* not abort startup: the URL is printed and the server goes on to arm the
\* timer and serve.
C8_BrowserFailureNonFatal ==
  [][ (pc = "open" /\ pc' # pc)
      => /\ pc' = "arm"
         /\ err' = ""
         /\ sock' = "listening"
         /\ Len(stdout') = 1 ]_vars

\* C9, as claimed: GET / and GET /index.html are always answered 200 with
\* the current bytes of Masking.html as text/html.
C9_ShellAlways200 ==
  [][ (/\ Responds
       /\ PathComponent(reqline) \in {<<"/">>, <<"/", "index.html">>})
      => /\ out'[1].status = 200
         /\ out'[1].ctype = "text/html; charset=utf-8"
         /\ out'[1].body = fs[ShellPath].data ]_vars

\* C9, amended: while Masking.html can be read, GET / and GET /index.html
\* are answered 200 with its current bytes as text/html; while it is missing
\* or cannot be read they are answered 500 "Failed to load Masking.html".
C9_ShellWhenReadable ==
  [][ (/\ Responds
       /\ PathComponent(reqline) \in {<<"/">>, <<"/", "index.html">>})
      => IF fs[ShellPath].kind = "file"
         THEN /\ Len(out') = 1
              /\ out'[1].status = 200
              /\ out'[1].ctype = "text/html; charset=utf-8"
              /\ out'[1].body = fs[ShellPath].data
         ELSE /\ Len(out') = 1
              /\ out'[1].status = 500
              /\ out'[1].reason = "Failed to load Masking.html" ]_vars

C9_Witness ==
  /\ hpc = "done"
  /\ reqline = <<"/", "index.html">>
  /\ out[1].status = 200
  /\ Len(out[1].body) = 1
  /\ out[1].body = fs[ShellPath].data

\* C10: a step of the request handler, whatever status it ends in, leaves
\* file_path, html_path, static_dir and the port as startup set them and the
\* server serving; a handler only runs on a serving server.
C10_HandlerFrame ==
  /\ [](hpc # "idle" =>
          /\ pc = "serve"
          /\ sock = "listening"
          /\ httpd = [file_path |-> args.file, html_path |-> ShellPath,
                      static_dir |-> <<"app">>, port |-> httpd.port])
  /\ [][ (hpc # "idle" /\ (hpc' # hpc \/ out' # out))
         => UNCHANGED <<pc, args, fs, checked, httpd, sock, stdout, err,
                        timer, shutdown_request>> ]_vars

C10_Witness ==
  /\ pc = "serve"
  /\ hpc = "done"
  /\ out[1].status = 500
  /\ sock = "listening"

====
